---- MODULE Spec2Model ----
(***************************************************************************)
(* key-notes (main.py): a loopback HTTP server over a directory of         *)
(* Markdown files, started by main() before a native window is opened.     *)
(*                                                                         *)
(* Python strings are modelled as sequences of one-character strings, so   *)
(* that slicing, strip(), splitlines() and startswith() are computed the   *)
(* way the code computes them.  File contents are the characters on disk   *)
(* (the model's alphabet is ASCII, one byte per character); read_text and  *)
(* write_text are the text-mode conversions of a POSIX build.              *)
(***************************************************************************)
EXTENDS Naturals, Sequences, FiniteSets, TLC

(***************************************************************************)
(* Bounds of the model.                                                    *)
(***************************************************************************)
\* requests handled over one behaviour
MaxRequests == 2
\* restarts of the application over one behaviour
MaxRestarts == 1
\* ports at and above PORT on which another process may already listen
MaxBusy == 1

(***************************************************************************)
(* Python string operations.                                               *)
(***************************************************************************)
\* s[n:]
Drop(s, n) == SubSeq(s, n + 1, Len(s))

\* s[:n]
Take(s, n) == SubSeq(s, 1, n)

\* s.startswith(p)
StartsWith(s, p) == Len(s) >= Len(p) /\ Take(s, Len(p)) = p

\* the characters str.strip() removes (those of the model's alphabet)
Whitespace == {" ", "\n", "\r", "\t"}

\* the line boundaries of str.splitlines() (those of the model's alphabet)
LineBreaks == {"\n", "\r"}

RECURSIVE lstrip(_)
lstrip(s) ==
    IF s # <<>> /\ s[1] \in Whitespace THEN lstrip(Drop(s, 1)) ELSE s

RECURSIVE rstrip(_)
rstrip(s) ==
    IF s # <<>> /\ s[Len(s)] \in Whitespace THEN rstrip(Take(s, Len(s) - 1)) ELSE s

\* s.strip()
strip(s) == rstrip(lstrip(s))

\* index of the first character of s that is in set cs, or Len(s) + 1
RECURSIVE FindFirst(_, _, _)
FindFirst(s, cs, i) ==
    IF i > Len(s) \/ s[i] \in cs THEN i ELSE FindFirst(s, cs, i + 1)

\* s.splitlines(): "\r\n" is one boundary; no empty last line after a
\* trailing boundary; "" has no lines
RECURSIVE splitlines(_)
splitlines(s) ==
    IF s = <<>> THEN <<>>
    ELSE LET j == FindFirst(s, LineBreaks, 1)
             skip == IF j < Len(s) /\ s[j] = "\r" /\ s[j + 1] = "\n"
                     THEN j + 1 ELSE j
         IN  <<Take(s, j - 1)>> \o splitlines(Drop(s, skip))

\* Python's `a or b` on strings
Or(a, b) == IF a = <<>> THEN b ELSE a

DigitChars == <<"0", "1", "2", "3", "4", "5", "6", "7", "8", "9">>

\* f"{i}"
RECURSIVE FmtD(_)
FmtD(i) ==
    IF i < 10 THEN <<DigitChars[i + 1]>>
    ELSE FmtD(i \div 10) \o <<DigitChars[(i % 10) + 1]>>

\* f"{i:02d}"
Fmt02d(i) == IF i < 10 THEN <<"0">> \o FmtD(i) ELSE FmtD(i)

(***************************************************************************)
(* Text-mode file conversions (pathlib read_text / write_text, newline     *)
(* argument left at its default).                                          *)
(***************************************************************************)
\* os.linesep
linesep == <<"\n">>

\* what write_text puts on disk: every "\n" becomes os.linesep
RECURSIVE EncodeText(_)
EncodeText(s) ==
    IF s = <<>> THEN <<>>
    ELSE (IF s[1] = "\n" THEN linesep ELSE <<s[1]>>) \o EncodeText(Drop(s, 1))

\* what read_text returns: universal newlines, "\r\n" and "\r" become "\n"
RECURSIVE DecodeText(_)
DecodeText(b) ==
    IF b = <<>> THEN <<>>
    ELSE IF b[1] = "\r"
         THEN <<"\n">> \o DecodeText(Drop(b, IF Len(b) > 1 /\ b[2] = "\n" THEN 2 ELSE 1))
         ELSE <<b[1]>> \o DecodeText(Drop(b, 1))

(***************************************************************************)
(* Program constants.                                                      *)
(***************************************************************************)
PORT == 8765

\* the notes of range(1, 11)
FirstNote == 1
LastNote == 10

\* f"note-{i:02d}"
NoteId(i) == <<"n", "o", "t", "e", "-">> \o Fmt02d(i)

FixedIds == {NoteId(i) : i \in FirstNote..LastNote}

\* DEFAULT_NOTES: note-01 and note-02 are modelled by their heading line and
\* the blank line after it (no later line of either text starts with "# ");
\* note-03 .. note-10 are the whole texts.
DEFAULT_NOTES ==
    [i \in FirstNote..LastNote |->
        [nid |-> NoteId(i),
         content |->
            IF i = 1 THEN <<"#"," ","D","e","s","i","g","n"," ","P","r","i","n",
                            "c","i","p","l","e","s","\n","\n">>
            ELSE IF i = 2 THEN <<"#"," ","A","s","k"," ","f","o","r"," ","H","e",
                                 "l","p","?","\n","\n">>
            ELSE <<"#"," ","N","o","t","e"," ">> \o FmtD(i) \o <<"\n","\n">>]]

\* a faulty get_title: the heading marker is not cut off
get_title_keeps_marker(content) ==
    LET lines == splitlines(content)
        hits == {k \in 1..Len(lines) : StartsWith(strip(lines[k]), <<"#", " ">>)}
    IN  IF hits = {} THEN <<"U","n","t","i","t","l","e","d">>
        ELSE strip(lines[CHOOSE k \in hits : \A m \in hits : k <= m])

\* get_title(content)
get_title(content) ==
    LET lines == splitlines(content)
        hits == {k \in 1..Len(lines) : StartsWith(strip(lines[k]), <<"#", " ">>)}
    IN  IF hits = {} THEN <<"U","n","t","i","t","l","e","d">>
        ELSE strip(Drop(strip(lines[CHOOSE k \in hits : \A m \in hits : k <= m]), 2))

(***************************************************************************)
(* State.                                                                  *)
(***************************************************************************)
VARIABLES
    files,      \* NOTES_DIR: file stem (the name without ".md") -> characters on disk
    mainpc,     \* where main() stands
    busy,       \* ports on which some other process accepts connections
    port,       \* main's local `port` (0 before find_free_port returned)
    listening,  \* port the server socket is bound to and listening on (0: none)
    window,     \* port of the URL the native window was opened on (0: no window)
    restarts,   \* how often the application was started again
    nreq,       \* requests handled so far
    req,        \* the request handled last
    resp,       \* the response sent to it
    seedPre,    \* history: the storage as the last seeding step found it
    lastPost,   \* history: file stem -> content of the last POST answered "ok"
    thr         \* the two handler threads of the concurrent POST scenario

vars == <<files, mainpc, busy, port, listening, window, restarts, nreq, req,
          resp, seedPre, lastPost, thr>>

(***************************************************************************)
(* Storage: pathlib calls on NOTES_DIR / f"{nid}.md".                      *)
(***************************************************************************)
NoFiles == [k \in {} |-> <<>>]

\* path.exists()
Exists(fs, nid) == nid \in DOMAIN fs

\* path.read_text("utf-8")
ReadText(fs, nid) == DecodeText(fs[nid])

\* open(path, "w"): creates the file or truncates it to length 0
OpenTruncate(fs, nid) ==
    [k \in DOMAIN fs \cup {nid} |-> IF k = nid THEN <<>> ELSE fs[k]]

\* a write of `bytes` at offset 0 through a descriptor opened without O_APPEND:
\* the bytes replace the start of the file, what lies beyond them stays
WriteAtStart(fs, nid, bytes) ==
    [fs EXCEPT ![nid] = bytes \o Drop(fs[nid], Len(bytes))]

\* path.write_text(text, "utf-8") run to completion by one thread
WriteText(fs, nid, text) ==
    WriteAtStart(OpenTruncate(fs, nid), nid, EncodeText(text))

(***************************************************************************)
(* main(): seeding, port choice, server, window.                           *)
(***************************************************************************)
\* a faulty seeding loop: the existence test is missing, every default is written
RECURSIVE SeedOverwriteFrom(_, _)
SeedOverwriteFrom(fs, k) ==
    IF k > Len(DEFAULT_NOTES) THEN fs
    ELSE SeedOverwriteFrom(
            WriteText(fs, DEFAULT_NOTES[k].nid, DEFAULT_NOTES[k].content), k + 1)

SeedOverwrite(fs) == SeedOverwriteFrom(fs, 1)

\* the loop of main() over DEFAULT_NOTES, from its k-th entry on
RECURSIVE SeedFrom(_, _)
SeedFrom(fs, k) ==
    IF k > Len(DEFAULT_NOTES) THEN fs
    ELSE SeedFrom(
            IF Exists(fs, DEFAULT_NOTES[k].nid) THEN fs
            ELSE WriteText(fs, DEFAULT_NOTES[k].nid, DEFAULT_NOTES[k].content),
            k + 1)

\* the seeding step of main()
SeedNotes(fs) == SeedFrom(fs, 1)

\* find_free_port(start): the first port from start on where connect_ex fails
RECURSIVE find_free_port(_)
find_free_port(start) ==
    IF start \notin busy THEN start ELSE find_free_port(start + 1)

\* a faulty window URL: built from the preferred port, not the chosen one
WindowPortDefault(p) == PORT

\* the port in the URL handed to webview.create_window
WindowPort(p) == p

Seed ==
    /\ mainpc = "start"
    /\ seedPre' = files
    /\ files' = SeedNotes(files)
    /\ mainpc' = "seeded"
    /\ UNCHANGED <<busy, port, listening, window, restarts, nreq, req, resp,
                   lastPost, thr>>

FindPort ==
    /\ mainpc = "seeded"
    /\ port' = find_free_port(PORT)
    /\ mainpc' = "port"
    /\ UNCHANGED <<files, busy, listening, window, restarts, nreq, req, resp,
                   seedPre, lastPost, thr>>

\* ThreadingHTTPServer(("127.0.0.1", port), Handler): bind and listen
BindOk ==
    /\ mainpc = "port"
    /\ port \notin busy
    /\ listening' = port
    /\ mainpc' = "bound"
    /\ UNCHANGED <<files, busy, port, window, restarts, nreq, req, resp,
                   seedPre, lastPost, thr>>

\* another process took the port after the probe: bind raises OSError and
\* main() ends with the exception
BindFails ==
    /\ mainpc = "port"
    /\ busy' = busy \cup {port}
    /\ mainpc' = "failed"
    /\ UNCHANGED <<files, port, listening, window, restarts, nreq, req, resp,
                   seedPre, lastPost, thr>>

\* threading.Thread(target=server.serve_forever, daemon=True).start()
StartThread ==
    /\ mainpc = "bound"
    /\ mainpc' = "serving"
    /\ UNCHANGED <<files, busy, port, listening, window, restarts, nreq, req,
                   resp, seedPre, lastPost, thr>>

\* webview.create_window(...); webview.start(...)
OpenWindow ==
    /\ mainpc = "serving"
    /\ window' = WindowPort(port)
    /\ mainpc' = "window"
    /\ UNCHANGED <<files, busy, port, listening, restarts, nreq, req, resp,
                   seedPre, lastPost, thr>>

\* the window is closed: webview.start returns, main() returns and the
\* process ends with its daemon thread and its socket
CloseWindow ==
    /\ mainpc = "window"
    /\ window' = 0
    /\ listening' = 0
    /\ mainpc' = "exited"
    /\ UNCHANGED <<files, busy, port, restarts, nreq, req, resp, seedPre,
                   lastPost, thr>>

\* the application is started again on the same notes directory
Restart ==
    /\ mainpc \in {"exited", "failed"}
    /\ restarts < MaxRestarts
    /\ restarts' = restarts + 1
    /\ port' = 0
    /\ mainpc' = "start"
    /\ UNCHANGED <<files, busy, listening, window, nreq, req, resp, seedPre,
                   lastPost, thr>>

(***************************************************************************)
(* Requests and responses.                                                 *)
(***************************************************************************)
ApiNotes == <<"/","a","p","i","/","n","o","t","e","s">>

ApiNotesSlash == ApiNotes \o <<"/">>

StaticSlash == <<"/","s","t","a","t","i","c","/">>

IndexPaths == {<<"/">>, <<"/","i","n","d","e","x",".","h","t","m","l">>}

\* urllib.parse.urlparse(p).path: the part before the query and the fragment
UrlPath(p) == Take(p, FindFirst(p, {"?", "#"}, 1) - 1)

\* a response: `kind` names the payload, the other fields hold its members
Response(status, kind, id, content, entries, error) ==
    [status |-> status, kind |-> kind, id |-> id, content |-> content,
     entries |-> entries, error |-> error]

\* the handler raised: socketserver reports the exception and closes the
\* connection, nothing was sent
NoResponse == Response(0, "none", <<>>, <<>>, <<>>, "")

\* send_error(404)
SendError404 == Response(404, "error page", <<>>, <<>>, <<>>, "")

\* a request body: `json` is "invalid" (json.loads raises), "array" (valid
\* JSON without a .get method) or "object"; of an object, `field` says whether
\* "content" is absent, a number or a string, and `text` is the string
Body(json, field, text) == [json |-> json, field |-> field, text |-> text]

NoBody == Body("none", "absent", <<>>)

\* the strings sent as "content"
Payloads ==
    { <<>>,
      <<"#"," ","H">>,
      <<"H","\r","H">>,
      <<"H","\n","#"," ","H">>,
      <<"#","#"," ","H">> }

\* bodies that make do_POST raise, and the object without a "content" member
OddBodies ==
    { Body("object", "absent", <<>>), Body("object", "number", <<>>),
      Body("array", "absent", <<>>), Body("invalid", "absent", <<>>) }

Bodies == {Body("object", "string", c) : c \in Payloads} \cup OddBodies

UnseededId == <<"n","o","t","e","-","9","9">>

Request(method, path, body) == [method |-> method, path |-> path, body |-> body]

\* the POST requests of the model: every body to a seeded note, a heading
\* and the odd bodies to an unseeded one, one POST with a query string and
\* one outside /api/notes/
PostRequests ==
    {Request("POST", ApiNotesSlash \o NoteId(3), b) : b \in Bodies}
        \cup {Request("POST", ApiNotesSlash \o UnseededId, b) :
                b \in OddBodies \cup {Body("object", "string", <<"#"," ","H">>)}}
        \cup {Request("POST", ApiNotesSlash \o NoteId(3) \o <<"?","v","=","1">>,
                      Body("object", "string", <<"#"," ","H">>)),
              Request("POST", ApiNotes, Body("object", "string", <<"#"," ","H">>))}

\* the GET requests of the model
GetPaths ==
    { ApiNotes,
      ApiNotesSlash \o NoteId(3),
      ApiNotesSlash \o NoteId(LastNote),
      ApiNotesSlash \o NoteId(3) \o <<"?","v","=","1">>,
      ApiNotesSlash \o UnseededId,
      <<"/">>,
      StaticSlash \o <<"a",".","j","s">>,
      <<"/","x">> }

\* a faulty list: the loop runs over range(0, 10)
ListNotesFromZero(fs) ==
    [k \in 1..(LastNote - FirstNote + 1) |->
        LET i == k - 1
            nid == NoteId(i)
            content == IF Exists(fs, nid) THEN ReadText(fs, nid) ELSE <<>>
        IN  [id |-> nid,
             title |-> Or(get_title(content), <<"N","o","t","e"," ">> \o FmtD(i))]]

\* the entries of GET /api/notes: for i in range(1, 11)
ListNotes(fs) ==
    [k \in 1..(LastNote - FirstNote + 1) |->
        LET i == FirstNote + k - 1
            nid == NoteId(i)
            content == IF Exists(fs, nid) THEN ReadText(fs, nid) ELSE <<>>
        IN  [id |-> nid,
             title |-> Or(get_title(content), <<"N","o","t","e"," ">> \o FmtD(i))]]

\* a faulty detail route: a missing file is read as an empty note
NoteDetailReadsMissing(fs, nid) ==
    Response(200, "note", nid, IF Exists(fs, nid) THEN ReadText(fs, nid) ELSE <<>>,
             <<>>, "")

\* the answer of GET /api/notes/{nid}
NoteDetail(fs, nid) ==
    IF Exists(fs, nid)
    THEN Response(200, "note", nid, ReadText(fs, nid), <<>>, "")
    ELSE Response(404, "error", <<>>, <<>>, <<>>, "not found")

\* do_GET: the response to a GET of `rawpath`; `present` says whether the
\* bundled file the route serves (index.html, the static asset) is on disk
do_GET(fs, rawpath, present) ==
    LET path == UrlPath(rawpath) IN
    IF path \in IndexPaths
    THEN IF present THEN Response(200, "html", <<>>, <<>>, <<>>, "") ELSE NoResponse
    ELSE IF path = ApiNotes
    THEN Response(200, "list", <<>>, <<>>, ListNotes(fs), "")
    ELSE IF StartsWith(path, ApiNotesSlash)
    THEN NoteDetail(fs, Drop(path, Len(ApiNotesSlash)))
    ELSE IF StartsWith(path, StaticSlash)
    THEN IF present THEN Response(200, "static", <<>>, <<>>, <<>>, "")
         ELSE SendError404
    ELSE SendError404

\* json.loads(body) and data.get("content", "") succeed
Parses(body) == body.json = "object"

\* data.get("content", "")
ContentOf(body) == IF body.field = "absent" THEN <<>> ELSE body.text

\* write_text accepts its argument (isinstance(data, str)), tested before the
\* file is opened
IsStr(body) == body.field # "number"

\* a faulty do_POST: the file is opened for writing before the body is parsed
do_POST_opens_first(fs, rawpath, body) ==
    IF ~StartsWith(rawpath, ApiNotesSlash)
    THEN [files |-> fs, resp |-> SendError404]
    ELSE LET nid == Drop(rawpath, Len(ApiNotesSlash)) IN
         IF ~Parses(body) \/ ~IsStr(body)
         THEN [files |-> OpenTruncate(fs, nid), resp |-> NoResponse]
         ELSE [files |-> WriteText(fs, nid, ContentOf(body)),
               resp |-> Response(200, "status", <<>>, <<>>, <<>>, "ok")]

\* do_POST run by one thread with no other handler running: the storage it
\* leaves and the response it sends
do_POST(fs, rawpath, body) ==
    IF ~StartsWith(rawpath, ApiNotesSlash)
    THEN [files |-> fs, resp |-> SendError404]
    ELSE LET nid == Drop(rawpath, Len(ApiNotesSlash)) IN
         IF ~Parses(body) \/ ~IsStr(body)
         THEN [files |-> fs, resp |-> NoResponse]
         ELSE [files |-> WriteText(fs, nid, ContentOf(body)),
               resp |-> Response(200, "status", <<>>, <<>>, <<>>, "ok")]

\* serve_forever is running in its thread
Serving == mainpc \in {"serving", "window"}

\* whether the bundled file a path names may be missing on disk
BundledFile(p) == UrlPath(p) \in IndexPaths \/ StartsWith(UrlPath(p), StaticSlash)

HandleGET ==
    /\ Serving
    /\ nreq < MaxRequests
    /\ \E p \in GetPaths, present \in BOOLEAN :
        /\ present \/ BundledFile(p)
        /\ req' = Request("GET", p, NoBody)
        /\ resp' = do_GET(files, p, present)
    /\ nreq' = nreq + 1
    /\ UNCHANGED <<files, mainpc, busy, port, listening, window, restarts,
                   seedPre, lastPost, thr>>

HandlePOST ==
    /\ Serving
    /\ nreq < MaxRequests
    /\ \E r \in PostRequests :
        LET out == do_POST(files, r.path, r.body)
            nid == Drop(r.path, Len(ApiNotesSlash))
        IN  /\ req' = r
            /\ resp' = out.resp
            /\ files' = out.files
            /\ lastPost' =
                 IF out.resp.kind = "status"
                 THEN [k \in DOMAIN lastPost \cup {nid} |->
                          IF k = nid THEN ContentOf(r.body) ELSE lastPost[k]]
                 ELSE lastPost
    /\ nreq' = nreq + 1
    /\ UNCHANGED <<mainpc, busy, port, listening, window, restarts, seedPre, thr>>

(***************************************************************************)
(* Two POST handlers running in two threads of ThreadingHTTPServer.  Each  *)
(* thread runs do_POST step by step; write_text is open(path, "w") and,    *)
(* when the file object is closed, one write of the encoded text at the    *)
(* descriptor's own offset 0.                                              *)
(***************************************************************************)
Threads == {1, 2}

IdleThread == [pc |-> "idle", nid |-> <<>>, body |-> NoBody]

ConcPaths == {ApiNotesSlash \o NoteId(3), ApiNotesSlash \o UnseededId}

\* the request line and the body are read: self.path, rfile.read(length)
TReceive(t) ==
    /\ thr[t].pc = "idle"
    /\ \E p \in ConcPaths, b \in Bodies :
        thr' = [thr EXCEPT ![t] = [pc |-> "parse",
                                   nid |-> Drop(p, Len(ApiNotesSlash)),
                                   body |-> b]]
    /\ UNCHANGED <<files, mainpc, busy, port, listening, window, restarts,
                   nreq, req, resp, seedPre, lastPost>>

\* json.loads, data.get and write_text's type test; an exception ends the
\* handler without a response
TParse(t) ==
    /\ thr[t].pc = "parse"
    /\ thr' = [thr EXCEPT ![t].pc =
                 IF Parses(thr[t].body) /\ IsStr(thr[t].body) THEN "open"
                 ELSE "raised"]
    /\ UNCHANGED <<files, mainpc, busy, port, listening, window, restarts,
                   nreq, req, resp, seedPre, lastPost>>

TOpen(t) ==
    /\ thr[t].pc = "open"
    /\ files' = OpenTruncate(files, thr[t].nid)
    /\ thr' = [thr EXCEPT ![t].pc = "write"]
    /\ UNCHANGED <<mainpc, busy, port, listening, window, restarts, nreq, req,
                   resp, seedPre, lastPost>>

TWrite(t) ==
    /\ thr[t].pc = "write"
    /\ files' = WriteAtStart(files, thr[t].nid, EncodeText(ContentOf(thr[t].body)))
    /\ thr' = [thr EXCEPT ![t].pc = "send"]
    /\ UNCHANGED <<mainpc, busy, port, listening, window, restarts, nreq, req,
                   resp, seedPre, lastPost>>

\* send_json({"status": "ok"})
TSend(t) ==
    /\ thr[t].pc = "send"
    /\ thr' = [thr EXCEPT ![t].pc = "done"]
    /\ UNCHANGED <<files, mainpc, busy, port, listening, window, restarts,
                   nreq, req, resp, seedPre, lastPost>>

(***************************************************************************)
(* Specifications.                                                         *)
(***************************************************************************)
\* the notes directory as a start of the application may find it: absent or
\* empty, or left by earlier use with some notes present and edited
InitialStorages ==
    { NoFiles,
      [k \in {NoteId(1), NoteId(3)} |->
          IF k = NoteId(1) THEN DEFAULT_NOTES[1].content ELSE <<"H","H">>],
      [k \in FixedIds \ {NoteId(2)} |-> <<>>] }

Init ==
    /\ files \in InitialStorages
    /\ mainpc = "start"
    /\ busy \in {PORT..(PORT + k - 1) : k \in 0..MaxBusy}
    /\ port = 0
    /\ listening = 0
    /\ window = 0
    /\ restarts = 0
    /\ nreq = 0
    /\ req = Request("none", <<>>, NoBody)
    /\ resp = NoResponse
    /\ seedPre = files
    /\ lastPost = NoFiles
    /\ thr = [t \in Threads |-> IdleThread]

Next ==
    \/ Seed
    \/ FindPort
    \/ BindOk
    \/ BindFails
    \/ StartThread
    \/ OpenWindow
    \/ CloseWindow
    \/ Restart
    \/ HandleGET
    \/ HandlePOST

\* the application from its start, requests handled one at a time
Spec == Init /\ [][Next]_vars

\* the application running on seeded storage with its window open
InitConc ==
    /\ files = SeedNotes(NoFiles)
    /\ mainpc = "window"
    /\ busy = {}
    /\ port = PORT
    /\ listening = PORT
    /\ window = PORT
    /\ restarts = 0
    /\ nreq = 0
    /\ req = Request("none", <<>>, NoBody)
    /\ resp = NoResponse
    /\ seedPre = NoFiles
    /\ lastPost = NoFiles
    /\ thr = [t \in Threads |-> IdleThread]

NextConc ==
    \E t \in Threads :
        \/ TReceive(t)
        \/ TParse(t)
        \/ TOpen(t)
        \/ TWrite(t)
        \/ TSend(t)

\* two POST requests handled concurrently
SpecConc == InitConc /\ [][NextConc]_vars

(***************************************************************************)
(* Claims.                                                                 *)
(***************************************************************************)
\* the note a GET or POST of path p names, as the client wrote it
RequestedId(p) == Drop(UrlPath(p), Len(ApiNotesSlash))

\* the request handled last was a GET of /api/notes/{id}
DetailRequest ==
    req.method = "GET" /\ StartsWith(UrlPath(req.path), ApiNotesSlash)

\* a step that handles one request
Handles == nreq' = nreq + 1

\* C1 (as claimed): once a POST of content c to an id was answered and nothing
\* wrote that id since, GET /api/notes/{id} (no query string) answers 200
\* with the id and exactly c.
C1_PostThenGetReturnsContent ==
    (DetailRequest /\ req.path = UrlPath(req.path)
        /\ RequestedId(req.path) \in DOMAIN lastPost)
    => /\ resp.status = 200
       /\ resp.kind = "note"
       /\ resp.id = RequestedId(req.path)
       /\ resp.content = lastPost[RequestedId(req.path)]

\* C2: right after the seeding step every one of the ten identifiers has a
\* file; an identifier that had none reads back its non-empty default; every
\* file that existed holds what it held; nothing else appears; a run that
\* found all ten, and any run after the first, changes nothing.
C2_SeedingCreatesMissingKeepsExisting ==
    mainpc = "seeded" =>
        /\ \A i \in FirstNote..LastNote :
              /\ Exists(files, NoteId(i))
              /\ ~Exists(seedPre, NoteId(i)) =>
                    /\ ReadText(files, NoteId(i)) = DEFAULT_NOTES[i].content
                    /\ files[NoteId(i)] # <<>>
        /\ \A k \in DOMAIN seedPre : files[k] = seedPre[k]
        /\ DOMAIN files = DOMAIN seedPre \cup FixedIds
        /\ (FixedIds \subseteq DOMAIN seedPre \/ restarts > 0) => files = seedPre

\* C2 witness: a second start seeds after note-03 was edited through POST to
\* something other than its default.
C2_Witness ==
    /\ mainpc = "seeded"
    /\ restarts > 0
    /\ NoteId(3) \in DOMAIN lastPost
    /\ files[NoteId(3)] # EncodeText(DEFAULT_NOTES[3].content)

\* both threads answered "ok" to a POST of the same id
BothPosted ==
    /\ \A t \in Threads : thr[t].pc = "done"
    /\ thr[1].nid = thr[2].nid

\* C3 (as claimed): when two concurrent POSTs to one id have both completed,
\* the file holds exactly one of the two payloads.
C3_ConcurrentPostsLeaveOnePayload ==
    BothPosted =>
        files[thr[1].nid] \in {EncodeText(ContentOf(thr[t].body)) : t \in Threads}

\* C4 (as claimed): once seeded, the note files are exactly the ten fixed
\* identifiers, whatever requests were handled.
C4_FilesAreTheFixedSet ==
    mainpc # "start" => DOMAIN files = FixedIds

\* C5 (as claimed): in the list, a note whose file is empty or missing has
\* the title "Note n".
C5_EmptyNoteTitledByNumber ==
    resp.kind = "list" =>
        \A i \in FirstNote..LastNote :
            (~Exists(files, NoteId(i)) \/ files[NoteId(i)] = <<>>)
                => resp.entries[i].title = <<"N","o","t","e"," ">> \o FmtD(i)

TenIds ==
    << <<"n","o","t","e","-","0","1">>, <<"n","o","t","e","-","0","2">>,
       <<"n","o","t","e","-","0","3">>, <<"n","o","t","e","-","0","4">>,
       <<"n","o","t","e","-","0","5">>, <<"n","o","t","e","-","0","6">>,
       <<"n","o","t","e","-","0","7">>, <<"n","o","t","e","-","0","8">>,
       <<"n","o","t","e","-","0","9">>, <<"n","o","t","e","-","1","0">> >>

\* C6: every GET /api/notes is answered 200 with exactly ten entries whose
\* ids are note-01 .. note-10 in that order, whatever the storage holds.
C6_ListIsTheTenIdsInOrder ==
    (req.method = "GET" /\ UrlPath(req.path) = ApiNotes) =>
        /\ resp.status = 200
        /\ resp.kind = "list"
        /\ Len(resp.entries) = 10
        /\ \A k \in 1..10 : resp.entries[k].id = TenIds[k]

\* C6 witness: a list answered while storage also holds a file that a POST
\* to an unseeded identifier created.
C6_Witness ==
    /\ resp.kind = "list"
    /\ Exists(files, UnseededId)

\* C7: the title the list reports for a fixed identifier is the one derived
\* from the content GET /api/notes/{id} returns for the same storage; after
\* a POST whose first "# " line is "# H" the entry's title is "H".
C7_TitleDerivedFromContent ==
    resp.kind = "list" =>
        \A i \in FirstNote..LastNote :
            LET detail == do_GET(files, ApiNotesSlash \o NoteId(i), TRUE) IN
            /\ detail.status = 200
            /\ resp.entries[i].title = get_title(detail.content)
            /\ (NoteId(i) \in DOMAIN lastPost
                  /\ lastPost[NoteId(i)] \in {<<"#"," ","H">>, <<"H","\n","#"," ","H">>})
                 => resp.entries[i].title = <<"H">>

\* C7 witness: the list is read after note-03 was given a heading on its
\* second line.
C7_Witness ==
    /\ resp.kind = "list"
    /\ NoteId(3) \in DOMAIN lastPost
    /\ lastPost[NoteId(3)] = <<"H","\n","#"," ","H">>

\* C8: a GET of /api/notes/{id} is answered 404 {error: "not found"} when the
\* id has no file and 200 {id, content} when it has one; handling it creates
\* no file and leaves the server running.
C8_DetailFoundOrNotFound ==
    [][(Handles /\ req'.method = "GET"
            /\ StartsWith(UrlPath(req'.path), ApiNotesSlash))
        => /\ IF Exists(files, RequestedId(req'.path))
              THEN /\ resp'.status = 200
                   /\ resp'.kind = "note"
                   /\ resp'.id = RequestedId(req'.path)
                   /\ resp'.content = ReadText(files, RequestedId(req'.path))
              ELSE /\ resp'.status = 404
                   /\ resp'.kind = "error"
                   /\ resp'.error = "not found"
           /\ files' = files
           /\ mainpc' = mainpc
           /\ listening' = listening]_vars

\* C8 witness: the never-seeded note-99 was asked for and answered 404, it
\* still has no file and the server is still serving.
C8_Witness ==
    /\ DetailRequest
    /\ RequestedId(req.path) = UnseededId
    /\ resp.status = 404
    /\ ~Exists(files, UnseededId)
    /\ Serving

\* C9: a window is open only on the port the server is bound to and
\* listening on, which is main's chosen port; the server listens only on
\* seeded storage; a start whose bind failed has no window and no server.
C9_WindowAfterServerAfterSeed ==
    /\ window # 0 => (listening # 0 /\ window = listening /\ window = port)
    /\ listening # 0 => (FixedIds \subseteq DOMAIN files /\ listening = port)
    /\ mainpc = "failed" => (window = 0 /\ listening = 0)

\* C9 witness: the window is open on a port other than the preferred one,
\* which another process holds.
C9_Witness ==
    /\ window # 0
    /\ window # PORT
    /\ PORT \in busy

\* json.loads, data.get or write_text's type test raises on this body
Malformed(body) == body.json \in {"invalid", "array"} \/ body.field = "number"

\* C10: a POST to /api/notes/{id} whose body is not JSON, is JSON that is no
\* object, or has a non-string content leaves every file as it was, creates
\* none and is not answered {status: "ok"}.
C10_MalformedPostLeavesStorage ==
    [][(Handles /\ req'.method = "POST" /\ StartsWith(req'.path, ApiNotesSlash)
            /\ Malformed(req'.body))
        => /\ files' = files
           /\ resp'.kind # "status"
           /\ resp'.status # 200]_vars

\* C10 witness: a malformed POST to note-03 was handled and the note still
\* holds the non-empty content an earlier POST gave it.
C10_Witness ==
    /\ req.method = "POST"
    /\ Malformed(req.body)
    /\ req.path = ApiNotesSlash \o NoteId(3)
    /\ resp = NoResponse
    /\ NoteId(3) \in DOMAIN lastPost
    /\ lastPost[NoteId(3)] # <<>>
    /\ files[NoteId(3)] = EncodeText(lastPost[NoteId(3)])

====
